---------------------------- MODULE Spec2Model ----------------------------
(***************************************************************************)
(* Model of the Python library of Multi-Agent-Coverage-Control:            *)
(*   VoronoiLib.py   - Voronoi2D_calCVTPartialDerivative (line integrals)  *)
(*   controlAlgo.py  - record classes, Voronoi2D_cal_dV_dz,                *)
(*                     compute_Lyapunov, compute_Control_Input             *)
(*                                                                         *)
(* Numbers.  The library computes with numpy float64 scalars.  The model   *)
(* computes exactly: a number is a record [n, d, r] standing for           *)
(* (n / d) * sqrt(r), r squarefree.  d = 0 encodes the IEEE specials that  *)
(* numpy produces instead of raising: n = 1 is +inf, n = -1 is -inf and    *)
(* n = 0 is nan.  Rounding error is not modelled.                          *)
(***************************************************************************)
EXTENDS Integers, Sequences, FiniteSets, TLC

---------------------------------------------------------------------------
(* Bounds of the model *)

\* coordinates of positions and vertices range over 0..MaxCoord
MaxCoord == 1
\* at most MaxCoeff rows in boundaryCoeff
MaxCoeff == 2
\* at most MaxNeighbor entries in the Jacobian / gradient lists
MaxNeighbor == 2
\* w0 and the gradient components range over -MaxW0..MaxW0
MaxW0 == 1
\* eps ranges over 0..MaxEps
MaxEps == 2
\* compute_Lyapunov is called at most MaxCalls times on the same arguments
MaxCalls == 2
\* a script runs at most MaxOps statements on the record classes
MaxOps == 3

---------------------------------------------------------------------------
(* Exact arithmetic with IEEE specials *)

Abs(x) == IF x < 0 THEN -x ELSE x

Sign(x) == IF x < 0 THEN -1 ELSE IF x > 0 THEN 1 ELSE 0

RECURSIVE Gcd(_, _)
Gcd(a, b) == IF b = 0 THEN a ELSE Gcd(b, a % b)

\* the normal form of (n / d) * sqrt(r), d >= 0, r >= 1 squarefree
Norm(n, d, r) ==
    IF d = 0 THEN [n |-> Sign(n), d |-> 0, r |-> 1]
    ELSE IF n = 0 THEN [n |-> 0, d |-> 1, r |-> 1]
    ELSE LET g == Gcd(Abs(n), d)
         IN  [n |-> n \div g, d |-> d \div g, r |-> r]

Num(i) == [n |-> i, d |-> 1, r |-> 1]

PosInf == [n |-> 1, d |-> 0, r |-> 1]

NaN == [n |-> 0, d |-> 0, r |-> 1]

IsFinite(a) == a.d > 0

IsZero(a) == a.d > 0 /\ a.n = 0

NumNeg(a) == [a EXCEPT !.n = -a.n]

\* float multiplication: inf * 0 = nan, nan absorbs, signs multiply
NumMul(a, b) ==
    LET g == Gcd(a.r, b.r)
    IN  Norm(a.n * b.n * g, a.d * b.d, (a.r \div g) * (b.r \div g))

\* float addition: inf + (-inf) = nan, nan absorbs.  Finite non-zero
\* summands of one call always carry the same radical.
NumAdd(a, b) ==
    IF a.d = 0 /\ b.d = 0 THEN (IF a = b THEN a ELSE NaN)
    ELSE IF IsZero(a) THEN b
    ELSE IF IsZero(b) THEN a
    ELSE Norm(a.n * b.d + b.n * a.d, a.d * b.d, IF a.d = 0 THEN b.r ELSE a.r)

NumSub(a, b) == NumAdd(a, NumNeg(b))

\* 1 / a on numpy scalars: 1 / 0 is inf (a warning, no exception),
\* 1 / inf is 0
NumRecip(a) ==
    IF a.d = 0 THEN (IF a.n = 0 THEN NaN ELSE Num(0))
    ELSE IF a.n = 0 THEN PosInf
    ELSE Norm(Sign(a.n) * a.d, Abs(a.n) * a.r, a.r)

NumDiv(a, b) == NumMul(a, NumRecip(b))

\* a >= 0 as a float comparison: false for nan
NumGE0(a) == IF a.d = 0 THEN a.n = 1 ELSE a.n >= 0

\* a < b for finite rationals
NumLT(a, b) == a.n * b.d < b.n * a.d

RECURSIVE LargestSquare(_, _)
LargestSquare(n, k) ==
    IF k <= 1 THEN 1
    ELSE IF n % (k * k) = 0 THEN k
    ELSE LargestSquare(n, k - 1)

\* math.sqrt of a finite number a >= 0 without radical:
\* sqrt(n / d) = sqrt(n * d) / d = (k / d) * sqrt(n * d / k^2)
NumSqrt(a) ==
    IF a.n = 0 THEN Num(0)
    ELSE LET i == a.n * a.d
             k == LargestSquare(i, i)
         IN  Norm(k, a.d, i \div (k * k))

\* 2-vectors and 2x2 matrices of numbers (numpy arrays), row major
Vec(x, y) == <<Num(x), Num(y)>>

Mat(a, b, c, d) == <<<<Num(a), Num(b)>>, <<Num(c), Num(d)>>>>

VecAdd(u, v) == <<NumAdd(u[1], v[1]), NumAdd(u[2], v[2])>>

VecSub(u, v) == <<NumSub(u[1], v[1]), NumSub(u[2], v[2])>>

VecScale(u, s) == <<NumMul(u[1], s), NumMul(u[2], s)>>

VecNeg(u) == <<NumNeg(u[1]), NumNeg(u[2])>>

Dot(u, v) == NumAdd(NumMul(u[1], v[1]), NumMul(u[2], v[2]))

\* np.matmul(M, v) / M.dot(v)
MatVec(M, v) == <<Dot(M[1], v), Dot(M[2], v)>>

\* np.transpose(M)
Transpose(M) == <<<<M[1][1], M[2][1]>>, <<M[1][2], M[2][2]>>>>

MatSub(A, B) == <<VecSub(A[1], B[1]), VecSub(A[2], B[2])>>

MatNeg(A) == <<VecNeg(A[1]), VecNeg(A[2])>>

\* np.identity(2)
Identity2 == Mat(1, 0, 0, 1)


---------------------------------------------------------------------------
(* State *)

VARIABLES
    pc,             \* position of the running script
    myAgent,        \* vorPrivateData instance: [C, z, dCi_dzi]
    dCi_dzj_list,   \* list of 2x2 cross-Jacobians handed to cal_dV_dz
    boundaryCoeff,  \* rows <<a, b, c>> of the boundary constraints
    controlParam,   \* controlParameter instance: [eps, P, Q_2x2, gain]
    gradRet,        \* what Voronoi2D_cal_dV_dz did
    diffArgs,       \* arguments of Voronoi2D_calCVTPartialDerivative
    diffRet,        \* what the call did
    swapRet,        \* the call with self and neighbor swapped
    revRet,         \* the call with the edge endpoints swapped
    ctlArgs,        \* [w0, theta, dV_dzi] of compute_Control_Input
    ctlRet,         \* its return value
    heap,           \* contents of the mutable objects (ndarray, grad_2d)
    dVidziRef,         \* reference of the caller's dVidzi array
    dVjdziRefs,     \* list of references of the neighbors' gradients
    lyapRet,        \* reference returned by compute_Lyapunov (0: none)
    lyapSeen,       \* the vectors the calls returned, as read at the return
    beforeCall,     \* the heap as the caller built it, before any call
    instances,      \* the record instances built so far: [cls, dict]
    nOps            \* statements run on the record classes

gradVars == <<myAgent, dCi_dzj_list, boundaryCoeff, gradRet>>

diffVars == <<diffArgs, diffRet, swapRet, revRet>>

ctlVars == <<ctlArgs, ctlRet>>

lyapVars == <<dVidziRef, dVjdziRefs, lyapRet, lyapSeen, beforeCall>>

recVars == <<instances, nOps>>

vars == <<pc, controlParam, heap, gradVars, diffVars, ctlVars, lyapVars, recVars>>

---------------------------------------------------------------------------
(* controlAlgo.py: Voronoi2D_cal_dV_dz *)

\* mutant of MarginH: the margin with its sign lost, (a*x + b*y) - c
MarginH_negated(row, zi) ==
    NumSub(NumAdd(NumMul(row[1], zi[1]), NumMul(row[2], zi[2])), row[3])

\* hj = boundaryCoeff[j,2] - (boundaryCoeff[j,0]*zi[0] + boundaryCoeff[j,1]*zi[1])
MarginH(row, zi) ==
    NumSub(row[3], NumAdd(NumMul(row[1], zi[1]), NumMul(row[2], zi[2])))

\* sum_1_div_Hj after the first j rows of the loop
RECURSIVE Sum_1_div_Hj(_, _, _)
Sum_1_div_Hj(coeff, zi, j) ==
    IF j = 0 THEN Num(0)
    ELSE NumAdd(Sum_1_div_Hj(coeff, zi, j - 1),
                NumDiv(Num(1), MarginH(coeff[j], zi)))

\* sum_aj_2HjSquared after the first j rows of the loop
RECURSIVE Sum_aj_2HjSquared(_, _, _)
Sum_aj_2HjSquared(coeff, zi, j) ==
    IF j = 0 THEN Vec(0, 0)
    ELSE LET hj == MarginH(coeff[j], zi)
             hj2 == NumMul(hj, hj)
             term == <<NumDiv(NumDiv(coeff[j][1], hj2), Num(2)),
                       NumDiv(NumDiv(coeff[j][2], hj2), Num(2))>>
         IN  VecAdd(Sum_aj_2HjSquared(coeff, zi, j - 1), term)

\* np.matmul(np.matmul(np.transpose(zi - Ci), Q), (zi - Ci))
QuadForm(Q, dz) == Dot(MatVec(Transpose(Q), dz), dz)

\* Q_zDiff_div_hj = np.matmul(Q, (zi - Ci)) * sum_1_div_Hj
Q_zDiff_div_hj(Q, dz, s1) == VecScale(MatVec(Q, dz), s1)

\* Vi = (zi - Ci)^T Q (zi - Ci) * sum_1_div_Hj / 2
LyapunovValue(Q, dz, s1) == NumDiv(NumMul(QuadForm(Q, dz), s1), Num(2))

\* dVidzi = (I - dCi_dzi^T).dot(Q_zDiff_div_hj) + sum_aj_2HjSquared * quad
SelfGradient(dCi_dzi, Qz, s2, Q, dz) ==
    VecAdd(MatVec(MatSub(Identity2, Transpose(dCi_dzi)), Qz),
           VecScale(s2, QuadForm(Q, dz)))

\* mutant of NeighborGradient: the transposition forgotten
NeighborGradient_untransposed(dCjdzi, Qz) == MatVec(MatNeg(dCjdzi), Qz)

\* -np.transpose(dCjdzi).dot(Q_zDiff_div_hj)
NeighborGradient(dCjdzi, Qz) == MatVec(MatNeg(Transpose(dCjdzi)), Qz)

\* dVidzj_Arr after friendID has run over the first n list entries
RECURSIVE NeighborLoop(_, _, _)
NeighborLoop(dCjdzi_Arr, Qz, n) ==
    IF n = 0 THEN <<>>
    ELSE Append(NeighborLoop(dCjdzi_Arr, Qz, n - 1),
                NeighborGradient(dCjdzi_Arr[n], Qz))

Voronoi2D_cal_dV_dz(vorPrivateData, dCjdzi_Arr, coeff, controlParameter) ==
    LET nNeighbor == Len(dCjdzi_Arr)
        numCoeff == Len(coeff)
        Ci == vorPrivateData.C
        zi == vorPrivateData.z
        s1 == Sum_1_div_Hj(coeff, zi, numCoeff)
        s2 == Sum_aj_2HjSquared(coeff, zi, numCoeff)
        Q == controlParameter.Q_2x2
        dz == VecSub(zi, Ci)
        Qz == Q_zDiff_div_hj(Q, dz, s1)
        Vi == LyapunovValue(Q, dz, s1)
    IN  IF ~NumGE0(Vi)
        THEN [outcome |-> "AssertionError"]
        ELSE [outcome |-> "returned",
              Vi |-> Vi,
              dVidzi |-> SelfGradient(vorPrivateData.dCi_dzi, Qz, s2, Q, dz),
              dVidzj_Arr |-> NeighborLoop(dCjdzi_Arr, Qz, nNeighbor)]

---------------------------------------------------------------------------
(* VoronoiLib.py: the integrands are functions of t in [0, 1].  Every      *)
(* integrand of the library is a polynomial in t, so a function of t is    *)
(* modelled by its coefficients <<c0, c1, ...>> and integrate.quad(f, 0, 1)*)
(* by the exact integral.  With a zero distance the coefficients are inf   *)
(* or nan, and so is the integral; the model does not say which.           *)

Max(a, b) == IF a >= b THEN a ELSE b

\* the integration variable t
TParam == <<Num(0), Num(1)>>

PConst(c) == <<c>>

PCoef(p, i) == IF i <= Len(p) THEN p[i] ELSE Num(0)

PAdd(p, q) == [i \in 1..Max(Len(p), Len(q)) |-> NumAdd(PCoef(p, i), PCoef(q, i))]

PSub(p, q) == [i \in 1..Max(Len(p), Len(q)) |-> NumSub(PCoef(p, i), PCoef(q, i))]

PScale(p, c) == [i \in 1..Len(p) |-> NumMul(p[i], c)]

RECURSIVE PMulCoef(_, _, _, _)
PMulCoef(p, q, k, i) ==
    IF i = 0 THEN Num(0)
    ELSE LET rest == PMulCoef(p, q, k, i - 1)
         IN  IF k + 1 - i >= 1 /\ k + 1 - i <= Len(q)
             THEN NumAdd(rest, NumMul(p[i], q[k + 1 - i]))
             ELSE rest

PMul(p, q) == [k \in 1..(Len(p) + Len(q) - 1) |-> PMulCoef(p, q, k, Len(p))]

\* integrate.quad(f, 0, 1)[0]: sum of c_i / (i + 1)
RECURSIVE QuadFrom(_, _)
QuadFrom(p, i) ==
    IF i = 0 THEN Num(0)
    ELSE NumAdd(QuadFrom(p, i - 1), NumDiv(p[i], Num(i)))

Quad(p) == QuadFrom(p, Len(p))

dq__dZix_n_func(qX, ziX, dZiZj) == PScale(PSub(qX, PConst(ziX)), NumRecip(dZiZj))

dq__dZiy_n_func(qY, ziY, dZiZj) == PScale(PSub(qY, PConst(ziY)), NumRecip(dZiZj))

\* mutant of dq__dZjx_n_func: the sign of the self kernel kept
dq__dZjx_n_func_unflipped(qX, zjX, dZiZj) ==
    PScale(PSub(qX, PConst(zjX)), NumRecip(dZiZj))

dq__dZjx_n_func(qX, zjX, dZiZj) == PScale(PSub(PConst(zjX), qX), NumRecip(dZiZj))

dq__dZjy_n_func(qY, zjY, dZiZj) == PScale(PSub(PConst(zjY), qY), NumRecip(dZiZj))

\* mutant of XtoT_func: v1x + v2x * t
XtoT_func_unanchored(t, v1x, v2x) == PAdd(PConst(v1x), PScale(t, v2x))

XtoT_func(t, v1x, v2x) == PAdd(PConst(v1x), PScale(t, NumSub(v2x, v1x)))

YtoT_func(t, v1y, v2y) == PAdd(PConst(v1y), PScale(t, NumSub(v2y, v1y)))

dCix_dzix_func(t, v1x, v2x, ziX, dZiZj, dqTodtParam) ==
    PScale(PMul(XtoT_func(t, v1x, v2x),
                dq__dZix_n_func(XtoT_func(t, v1x, v2x), ziX, dZiZj)), dqTodtParam)

dCiy_dzix_func(t, v1x, v2x, v1y, v2y, ziX, dZiZj, dqTodtParam) ==
    PScale(PMul(YtoT_func(t, v1y, v2y),
                dq__dZix_n_func(XtoT_func(t, v1x, v2x), ziX, dZiZj)), dqTodtParam)

dCix_dziy_func(t, v1x, v2x, v1y, v2y, ziY, dZiZj, dqTodtParam) ==
    PScale(PMul(XtoT_func(t, v1x, v2x),
                dq__dZiy_n_func(YtoT_func(t, v1y, v2y), ziY, dZiZj)), dqTodtParam)

dCiy_dziy_func(t, v1y, v2y, ziY, dZiZj, dqTodtParam) ==
    PScale(PMul(YtoT_func(t, v1y, v2y),
                dq__dZiy_n_func(YtoT_func(t, v1y, v2y), ziY, dZiZj)), dqTodtParam)

dCix_dzjx_func(t, v1x, v2x, zjx, dZiZj, dqTodtParam) ==
    PScale(PMul(XtoT_func(t, v1x, v2x),
                dq__dZjx_n_func(XtoT_func(t, v1x, v2x), zjx, dZiZj)), dqTodtParam)

dCiy_dzjx_func(t, v1x, v2x, v1y, v2y, zjx, dZiZj, dqTodtParam) ==
    PScale(PMul(YtoT_func(t, v1y, v2y),
                dq__dZjx_n_func(XtoT_func(t, v1x, v2x), zjx, dZiZj)), dqTodtParam)

dCix_dzjy_func(t, v1x, v2x, v1y, v2y, zjy, dZiZj, dqTodtParam) ==
    PScale(PMul(XtoT_func(t, v1x, v2x),
                dq__dZjy_n_func(YtoT_func(t, v1y, v2y), zjy, dZiZj)), dqTodtParam)

dCiy_dzjy_func(t, v1y, v2y, zjy, dZiZj, dqTodtParam) ==
    PScale(PMul(YtoT_func(t, v1y, v2y),
                dq__dZjy_n_func(YtoT_func(t, v1y, v2y), zjy, dZiZj)), dqTodtParam)

\* math.sqrt((p[0] - q[0])**2 + (p[1] - q[1])**2)
Distance(p, q) ==
    LET dx == NumSub(p[1], q[1])
        dy == NumSub(p[2], q[2])
    IN  NumSqrt(NumAdd(NumMul(dx, dx), NumMul(dy, dy)))

\* (firstTermInt[0] - secondTermInt[0] * thisCVT_2d[k]) / mVi
Entry(firstTermInt, secondTermInt, cvt, mVi) ==
    NumDiv(NumSub(firstTermInt, NumMul(secondTermInt, cvt)), mVi)

Voronoi2D_calCVTPartialDerivative(thisCoord_2d, thisCVT_2d, mVi, adjCoord_2d, vertex1_2d, vertex2_2d) ==
    LET distanceZiZj == Distance(thisCoord_2d, adjCoord_2d)
        v1x == vertex1_2d[1]
        v2x == vertex2_2d[1]
        v1y == vertex1_2d[2]
        v2y == vertex2_2d[2]
        t == TParam
        dqTodtParam == Distance(vertex2_2d, vertex1_2d)
        \* dCi_dzix
        dCi_dzix_secondTermInt ==
            Quad(PScale(dq__dZix_n_func(XtoT_func(t, v1x, v2x), thisCoord_2d[1],
                                        distanceZiZj), dqTodtParam))
        dCix_dzix_firstTermInt ==
            Quad(dCix_dzix_func(t, v1x, v2x, thisCoord_2d[1], distanceZiZj, dqTodtParam))
        dCiy_dzix_firstTermInt ==
            Quad(dCiy_dzix_func(t, v1x, v2x, v1y, v2y, thisCoord_2d[1], distanceZiZj,
                                dqTodtParam))
        dCix_dzix == Entry(dCix_dzix_firstTermInt, dCi_dzix_secondTermInt, thisCVT_2d[1], mVi)
        dCiy_dzix == Entry(dCiy_dzix_firstTermInt, dCi_dzix_secondTermInt, thisCVT_2d[2], mVi)
        \* dCi_dziy
        dCi_dziy_secondTermInt ==
            Quad(PScale(dq__dZiy_n_func(YtoT_func(t, v1y, v2y), thisCoord_2d[2],
                                        distanceZiZj), dqTodtParam))
        dCix_dziy_firstTermInt ==
            Quad(dCix_dziy_func(t, v1x, v2x, v1y, v2y, thisCoord_2d[2], distanceZiZj,
                                dqTodtParam))
        dCiy_dziy_firstTermInt ==
            Quad(dCiy_dziy_func(t, v1y, v2y, thisCoord_2d[2], distanceZiZj, dqTodtParam))
        dCix_dziy == Entry(dCix_dziy_firstTermInt, dCi_dziy_secondTermInt, thisCVT_2d[1], mVi)
        dCiy_dziy == Entry(dCiy_dziy_firstTermInt, dCi_dziy_secondTermInt, thisCVT_2d[2], mVi)
        \* dCi_dzjx
        dCi_dzjx_secondTermInt ==
            Quad(PScale(dq__dZjx_n_func(XtoT_func(t, v1x, v2x), adjCoord_2d[1],
                                        distanceZiZj), dqTodtParam))
        dCix_dzjx_firstTermInt ==
            Quad(dCix_dzjx_func(t, v1x, v2x, adjCoord_2d[1], distanceZiZj, dqTodtParam))
        dCiy_dzjx_firstTermInt ==
            Quad(dCiy_dzjx_func(t, v1x, v2x, v1y, v2y, adjCoord_2d[1], distanceZiZj,
                                dqTodtParam))
        dCix_dzjx == Entry(dCix_dzjx_firstTermInt, dCi_dzjx_secondTermInt, thisCVT_2d[1], mVi)
        dCiy_dzjx == Entry(dCiy_dzjx_firstTermInt, dCi_dzjx_secondTermInt, thisCVT_2d[2], mVi)
        \* dCi_dzjy
        dCi_dzjy_secondTermInt ==
            Quad(PScale(dq__dZjy_n_func(YtoT_func(t, v1y, v2y), adjCoord_2d[2],
                                        distanceZiZj), dqTodtParam))
        dCix_dzjy_firstTermInt ==
            Quad(dCix_dzjy_func(t, v1x, v2x, v1y, v2y, adjCoord_2d[2], distanceZiZj,
                                dqTodtParam))
        dCiy_dzjy_firstTermInt ==
            Quad(dCiy_dzjy_func(t, v1y, v2y, adjCoord_2d[2], distanceZiZj, dqTodtParam))
        dCix_dzjy == Entry(dCix_dzjy_firstTermInt, dCi_dzjy_secondTermInt, thisCVT_2d[1], mVi)
        dCiy_dzjy == Entry(dCiy_dzjy_firstTermInt, dCi_dzjy_secondTermInt, thisCVT_2d[2], mVi)
    IN  \* no statement of the function raises on numpy scalars
        [outcome |-> "returned",
         dCi_dzi_AdjacentJ |-> <<<<dCix_dzix, dCix_dziy>>, <<dCiy_dzix, dCiy_dziy>>>>,
         dCi_dzj |-> <<<<dCix_dzjx, dCix_dzjy>>, <<dCiy_dzjx, dCiy_dzjy>>>>]

---------------------------------------------------------------------------
(* controlAlgo.py: compute_Control_Input *)

NumAbs(a) == [a EXCEPT !.n = Abs(a.n)]

\* headings whose cosine and sine are rational
Thetas == {"0", "pi/2", "pi", "-pi/2", "atan(4/3)", "pi-atan(3/4)"}

\* math.cos(theta)
Cos(theta) ==
    CASE theta = "0" -> Num(1)
      [] theta = "pi/2" -> Num(0)
      [] theta = "pi" -> Num(-1)
      [] theta = "-pi/2" -> Num(0)
      [] theta = "atan(4/3)" -> Norm(3, 5, 1)
      [] theta = "pi-atan(3/4)" -> Norm(-4, 5, 1)

\* math.sin(theta)
Sin(theta) ==
    CASE theta = "0" -> Num(0)
      [] theta = "pi/2" -> Num(1)
      [] theta = "pi" -> Num(0)
      [] theta = "-pi/2" -> Num(-1)
      [] theta = "atan(4/3)" -> Norm(4, 5, 1)
      [] theta = "pi-atan(3/4)" -> Norm(3, 5, 1)

\* mutant of sigmoid_func: abs forgotten, x / (x + eps)
sigmoid_func_noabs(x, eps) == NumDiv(x, NumAdd(x, eps))

\* sigmoid_func = lambda x, eps: x / (abs(x) + eps)
sigmoid_func(x, eps) == NumDiv(x, NumAdd(NumAbs(x), eps))

\* dV_dzi[0] * math.cos(theta) + dV_dzi[1] * math.sin(theta)
Projection(theta, dV_dzi) ==
    NumAdd(NumMul(dV_dzi[1], Cos(theta)), NumMul(dV_dzi[2], Sin(theta)))

compute_Control_Input(w0, theta, dV_dzi, controlParameter) ==
    NumAdd(w0, NumMul(NumMul(controlParameter.P, w0),
                      sigmoid_func(Projection(theta, dV_dzi), controlParameter.eps)))

---------------------------------------------------------------------------
(* controlAlgo.py: compute_Lyapunov.  numpy arrays are objects: the heap   *)
(* is a sequence of array contents and a reference is an index into it.    *)

\* the heap after friendID has run over the first n entries of dVjdzi_Arr:
\* sumdV_dzi names the object of dVidzi, and += on an ndarray adds in place
RECURSIVE LyapunovLoop(_, _, _, _)
LyapunovLoop(h, sumdV_dzi, dVjdzi_Arr, n) ==
    IF n = 0 THEN h
    ELSE LET g == LyapunovLoop(h, sumdV_dzi, dVjdzi_Arr, n - 1)
         IN  [g EXCEPT ![sumdV_dzi] = VecAdd(g[sumdV_dzi], g[dVjdzi_Arr[n]])]

\* the heap after the call and the reference returned
compute_Lyapunov(h, dVidzi, dVjdzi_Arr) ==
    LET sumdV_dzi == dVidzi
    IN  [heap |-> LyapunovLoop(h, sumdV_dzi, dVjdzi_Arr, Len(dVjdzi_Arr)),
         ret |-> sumdV_dzi]

---------------------------------------------------------------------------
(* controlAlgo.py / VoronoiLib.py: the record classes.  A value is an      *)
(* immutable int or a reference into the heap (ndarray, grad_2d object).   *)

IntVal(i) == [kind |-> "int", v |-> i]

ArrayRef(id) == [kind |-> "ndarray", v |-> id]

GradRef(id) == [kind |-> "grad_2d", v |-> id]

Unset == [kind |-> "unset", v |-> 0]

\* grad_2d.__init__(mat2x2)
grad_2d(mat2x2) ==
    [dx_dx |-> mat2x2[1][1], dx_dy |-> mat2x2[1][2],
     dy_dx |-> mat2x2[2][1], dy_dy |-> mat2x2[2][2]]

\* the objects built once, when the class bodies run at import
ClassHeap ==
    <<Vec(0, 0),                      \* vorAgentData.C
      Vec(0, 0),                      \* vorAgentData.z
      grad_2d(Mat(0, 0, 0, 0)),       \* vorPrivateData.dCi_dzi
      grad_2d(Mat(0, 0, 0, 0)),       \* vorNeighborData.dCj_dzi
      Mat(0, 0, 0, 0)>>               \* controlParameter.Q_2x2

Classes == {"vorPrivateData", "vorNeighborData", "controlParameter"}

FieldsOf(cls) ==
    CASE cls = "vorPrivateData" -> {"C", "z", "dCi_dzi"}
      [] cls = "vorNeighborData" -> {"C", "z", "dCj_dzi"}
      [] cls = "controlParameter" -> {"eps", "P", "Q_2x2", "gain"}

\* the class attribute an instance falls back to (objects by their place
\* in ClassHeap)
ClassAttr(f) ==
    CASE f = "C" -> ArrayRef(1)
      [] f = "z" -> ArrayRef(2)
      [] f = "dCi_dzi" -> GradRef(3)
      [] f = "dCj_dzi" -> GradRef(4)
      [] f = "Q_2x2" -> ArrayRef(5)
      [] f = "eps" -> IntVal(0)
      [] f = "P" -> IntVal(1)
      [] f = "gain" -> IntVal(1)

\* cls(): a new instance has an empty __dict__
Construct(cls) == [cls |-> cls, dict |-> [f \in FieldsOf(cls) |-> Unset]]

\* getattr(inst, f): the instance's own attribute, else the class attribute
GetAttr(inst, f) == IF inst.dict[f] # Unset THEN inst.dict[f] ELSE ClassAttr(f)

IsMatrixField(f) == f \in {"dCi_dzi", "dCj_dzi", "Q_2x2"}

MatAdd(A, B) == <<VecAdd(A[1], B[1]), VecAdd(A[2], B[2])>>

\* ndarray + ndarray of the field's shape
ArrayAdd(f, a, b) == IF IsMatrixField(f) THEN MatAdd(a, b) ELSE VecAdd(a, b)

\* int + ndarray (broadcast)
Broadcast(f, i, b) ==
    IF IsMatrixField(f)
    THEN MatAdd(Mat(i, i, i, i), b)
    ELSE VecAdd(Vec(i, i), b)

\* right-hand sides the scripts assign: kind "array" is a fresh np.array
AssignRhs(f) ==
    CASE f = "C" -> {[kind |-> "array", val |-> Vec(4, 3)]}
      [] f = "z" -> {[kind |-> "array", val |-> Vec(2, 2)]}
      [] f = "dCi_dzi" -> {[kind |-> "int", val |-> 0],
                           [kind |-> "array", val |-> Mat(1, 2, 3, 4)]}
      [] f = "dCj_dzi" -> {[kind |-> "array", val |-> Mat(1, 2, 3, 4)]}
      [] f = "Q_2x2" -> {[kind |-> "array", val |-> Mat(5, 0, 0, 5)]}
      [] f = "eps" -> {[kind |-> "int", val |-> 5]}
      [] f = "P" -> {[kind |-> "int", val |-> 3]}
      [] f = "gain" -> {[kind |-> "int", val |-> 3]}

\* right-hand sides of +=
AccumulateRhs(f) ==
    CASE f \in {"C", "z"} -> [kind |-> "array", val |-> Vec(1, 0)]
      [] IsMatrixField(f) -> [kind |-> "array", val |-> Mat(1, 0, 0, 1)]
      [] OTHER -> [kind |-> "int", val |-> 1]

\* inst.f = rhs: binds the name in the instance's __dict__
SetAttr(insts, h, i, f, rhs) ==
    IF rhs.kind = "int"
    THEN [instances |-> [insts EXCEPT ![i].dict[f] = IntVal(rhs.val)],
          heap |-> h, raised |-> FALSE]
    ELSE [instances |-> [insts EXCEPT ![i].dict[f] = ArrayRef(Len(h) + 1)],
          heap |-> Append(h, rhs.val), raised |-> FALSE]

\* inst.f += rhs: getattr, then __iadd__ (ndarray: in place, same object)
\* or __add__ (int: a new value), then setattr on the instance
IAddAttr(insts, h, i, f, rhs) ==
    LET cur == GetAttr(insts[i], f)
    IN  CASE cur.kind = "ndarray" ->
               [instances |-> [insts EXCEPT ![i].dict[f] = cur],
                heap |-> [h EXCEPT ![cur.v] = ArrayAdd(f, @, rhs.val)],
                raised |-> FALSE]
          [] cur.kind = "int" /\ rhs.kind = "int" ->
               [instances |-> [insts EXCEPT ![i].dict[f] = IntVal(cur.v + rhs.val)],
                heap |-> h, raised |-> FALSE]
          [] cur.kind = "int" /\ rhs.kind = "array" ->
               [instances |-> [insts EXCEPT ![i].dict[f] = ArrayRef(Len(h) + 1)],
                heap |-> Append(h, Broadcast(f, cur.v, rhs.val)),
                raised |-> FALSE]
          [] cur.kind = "grad_2d" ->
               \* grad_2d defines no __add__: TypeError
               [instances |-> insts, heap |-> h, raised |-> TRUE]

---------------------------------------------------------------------------
(* Inputs *)

Coords == 0..MaxCoord

Points == {Vec(x, y) : x \in Coords, y \in Coords}

\* centroids: one on the grid origin, one off it
Centroids == {Vec(0, 0), Vec(1, 2)}

\* boundary rows <<a, b, c>>: x >= 0, x + y <= 1, y <= 3
CoeffRows == {<<Num(-1), Num(0), Num(0)>>,
              <<Num(1), Num(1), Num(1)>>,
              <<Num(0), Num(1), Num(3)>>}

\* weighting matrices: two positive definite (5 * identity is the scripts'),
\* one singular positive semi-definite, one non-symmetric with a positive
\* semi-definite quadratic form, the class default (zero), one indefinite
QMatrices == {Mat(5, 0, 0, 5), Mat(2, 1, 1, 1), Mat(1, 1, 1, 1), Mat(1, 2, 0, 1),
              Mat(0, 0, 0, 0), Mat(-1, 0, 0, 1)}

Jacobians == {Mat(0, 0, 0, 0), Mat(1, 2, -1, 3)}

SeqsUpTo(S, n) == UNION {[1..k -> S] : k \in 0..n}

ControlParams(epsSet, PSet, QSet) ==
    [eps : epsSet, P : PSet, Q_2x2 : QSet, gain : {Num(1)}]

NoRet == [outcome |-> "none"]

\* the parts of the state a script does not use
IdleGrad ==
    /\ myAgent = [C |-> Vec(0, 0), z |-> Vec(0, 0), dCi_dzi |-> Mat(0, 0, 0, 0)]
    /\ dCi_dzj_list = <<>>
    /\ boundaryCoeff = <<>>
    /\ gradRet = NoRet

IdleParam == controlParam \in ControlParams({Num(0)}, {Num(1)}, {Mat(0, 0, 0, 0)})

IdleDiff ==
    /\ diffArgs = <<>>
    /\ diffRet = NoRet
    /\ swapRet = NoRet
    /\ revRet = NoRet

IdleCtl ==
    /\ ctlArgs = <<>>
    /\ ctlRet = NaN

IdleLyap ==
    /\ dVidziRef = 0
    /\ dVjdziRefs = <<>>
    /\ lyapRet = 0
    /\ lyapSeen = <<>>
    /\ beforeCall = <<>>

IdleRec ==
    /\ instances = <<>>
    /\ nOps = 0

---------------------------------------------------------------------------
(* The gradient assembler on every input of the bounded sets *)

InitGrad ==
    /\ pc = "start"
    /\ myAgent \in [C : Centroids, z : Points, dCi_dzi : Jacobians]
    /\ dCi_dzj_list \in SeqsUpTo(Jacobians, MaxNeighbor)
    /\ boundaryCoeff \in SeqsUpTo(CoeffRows, MaxCoeff)
    /\ controlParam \in ControlParams({Num(0)}, {Num(1)}, QMatrices)
    /\ gradRet = NoRet
    /\ heap = <<>>
    /\ IdleDiff /\ IdleCtl /\ IdleLyap /\ IdleRec

\* Test.py:58, controlFlow.py:60
Call_cal_dV_dz ==
    /\ pc = "start"
    /\ gradRet' = Voronoi2D_cal_dV_dz(myAgent, dCi_dzj_list, boundaryCoeff,
                                      controlParam)
    /\ pc' = "done"
    /\ UNCHANGED <<myAgent, dCi_dzj_list, boundaryCoeff, controlParam, heap,
                   diffVars, ctlVars, lyapVars, recVars>>

SpecGrad == InitGrad /\ [][Call_cal_dV_dz]_vars

---------------------------------------------------------------------------
(* The differentiator: one call, then the same call with the roles of      *)
(* self and neighbor swapped, then with the edge endpoints swapped         *)

\* the cell mass mVi
Masses == {Num(2)}

InitDiff ==
    /\ pc = "start"
    /\ diffArgs \in [thisCoord_2d : Points, thisCVT_2d : Centroids, mVi : Masses,
                     adjCoord_2d : Points, vertex1_2d : Points, vertex2_2d : Points]
    /\ diffRet = NoRet
    /\ swapRet = NoRet
    /\ revRet = NoRet
    /\ heap = <<>>
    /\ IdleGrad /\ IdleParam /\ IdleCtl /\ IdleLyap /\ IdleRec

\* Test.py:30, controlFlow.py:42
Call_calCVTPartialDerivative ==
    /\ pc = "start"
    /\ diffRet' = Voronoi2D_calCVTPartialDerivative(
                      diffArgs.thisCoord_2d, diffArgs.thisCVT_2d, diffArgs.mVi,
                      diffArgs.adjCoord_2d, diffArgs.vertex1_2d, diffArgs.vertex2_2d)
    /\ pc' = "called"
    /\ UNCHANGED <<diffArgs, swapRet, revRet, controlParam, heap,
                   gradVars, ctlVars, lyapVars, recVars>>

Call_swappedRoles ==
    /\ pc = "called"
    /\ swapRet' = Voronoi2D_calCVTPartialDerivative(
                      diffArgs.adjCoord_2d, diffArgs.thisCVT_2d, diffArgs.mVi,
                      diffArgs.thisCoord_2d, diffArgs.vertex1_2d, diffArgs.vertex2_2d)
    /\ pc' = "swapped"
    /\ UNCHANGED <<diffArgs, diffRet, revRet, controlParam, heap,
                   gradVars, ctlVars, lyapVars, recVars>>

Call_reversedEdge ==
    /\ pc = "swapped"
    /\ revRet' = Voronoi2D_calCVTPartialDerivative(
                      diffArgs.thisCoord_2d, diffArgs.thisCVT_2d, diffArgs.mVi,
                      diffArgs.adjCoord_2d, diffArgs.vertex2_2d, diffArgs.vertex1_2d)
    /\ pc' = "done"
    /\ UNCHANGED <<diffArgs, diffRet, swapRet, controlParam, heap,
                   gradVars, ctlVars, lyapVars, recVars>>

NextDiff ==
    \/ Call_calCVTPartialDerivative
    \/ Call_swappedRoles
    \/ Call_reversedEdge

SpecDiff == InitDiff /\ [][NextDiff]_vars

---------------------------------------------------------------------------
(* The control-law mapper on every input of the bounded sets *)

Signed == {Num(i) : i \in -MaxW0..MaxW0}

Gains == {Num(-1), Num(0), Num(1), Num(3)}

InitCtl ==
    /\ pc = "start"
    /\ ctlArgs \in [w0 : Signed, theta : Thetas, dV_dzi : Signed \X Signed]
    /\ controlParam \in ControlParams({Num(e) : e \in 0..MaxEps}, Gains,
                                      {Mat(0, 0, 0, 0)})
    /\ ctlRet = NaN
    /\ heap = <<>>
    /\ IdleGrad /\ IdleDiff /\ IdleLyap /\ IdleRec

Call_compute_Control_Input ==
    /\ pc = "start"
    /\ ctlRet' = compute_Control_Input(ctlArgs.w0, ctlArgs.theta, ctlArgs.dV_dzi,
                                       controlParam)
    /\ pc' = "done"
    /\ UNCHANGED <<ctlArgs, controlParam, heap, gradVars, diffVars, lyapVars, recVars>>

SpecCtl == InitCtl /\ [][Call_compute_Control_Input]_vars

---------------------------------------------------------------------------
(* compute_Lyapunov called repeatedly on the same argument objects *)

InitLyap ==
    /\ pc = "start"
    /\ \E own \in Points, others \in SeqsUpTo(Points, MaxNeighbor) :
          /\ heap = <<own>> \o others
          /\ dVjdziRefs = [i \in 1..Len(others) |-> i + 1]
    /\ dVidziRef = 1
    /\ lyapRet = 0
    /\ lyapSeen = <<>>
    /\ beforeCall = heap
    /\ IdleGrad /\ IdleParam /\ IdleDiff /\ IdleCtl /\ IdleRec

Call_compute_Lyapunov ==
    /\ Len(lyapSeen) < MaxCalls
    /\ LET r == compute_Lyapunov(heap, dVidziRef, dVjdziRefs)
       IN  /\ heap' = r.heap
           /\ lyapRet' = r.ret
           /\ lyapSeen' = Append(lyapSeen, r.heap[r.ret])
    /\ pc' = "called"
    /\ UNCHANGED <<dVidziRef, dVjdziRefs, beforeCall, controlParam,
                   gradVars, diffVars, ctlVars, recVars>>

SpecLyap == InitLyap /\ [][Call_compute_Lyapunov]_vars

---------------------------------------------------------------------------
(* Scripts on the record classes: construct, assign, accumulate *)

InitRec ==
    /\ pc = "start"
    /\ instances = <<>>
    /\ heap = ClassHeap
    /\ nOps = 0
    /\ IdleGrad /\ IdleParam /\ IdleDiff /\ IdleCtl /\ IdleLyap

\* x = vorPrivateData() / vorNeighborData() / controlParameter()
New(cls) ==
    /\ pc = "start"
    /\ nOps < MaxOps
    /\ instances' = Append(instances, Construct(cls))
    /\ nOps' = nOps + 1
    /\ UNCHANGED <<pc, heap, controlParam, gradVars, diffVars, ctlVars, lyapVars>>

\* x.f = rhs
Assign(i, f, rhs) ==
    /\ pc = "start"
    /\ nOps < MaxOps
    /\ LET r == SetAttr(instances, heap, i, f, rhs)
       IN  /\ instances' = r.instances
           /\ heap' = r.heap
    /\ nOps' = nOps + 1
    /\ UNCHANGED <<pc, controlParam, gradVars, diffVars, ctlVars, lyapVars>>

\* x.f += rhs
Accumulate(i, f) ==
    /\ pc = "start"
    /\ nOps < MaxOps
    /\ LET r == IAddAttr(instances, heap, i, f, AccumulateRhs(f))
       IN  /\ instances' = r.instances
           /\ heap' = r.heap
           /\ pc' = IF r.raised THEN "TypeError" ELSE pc
    /\ nOps' = nOps + 1
    /\ UNCHANGED <<controlParam, gradVars, diffVars, ctlVars, lyapVars>>

NextRec ==
    \/ \E cls \in Classes : New(cls)
    \/ \E i \in 1..Len(instances) : \E f \in FieldsOf(instances[i].cls) :
          \E rhs \in AssignRhs(f) : Assign(i, f, rhs)
    \/ \E i \in 1..Len(instances) : \E f \in FieldsOf(instances[i].cls) :
          Accumulate(i, f)

SpecRec == InitRec /\ [][NextRec]_vars

---------------------------------------------------------------------------
(* Claims on Voronoi2D_cal_dV_dz, checked under SpecGrad *)

\* the margin of row k at the agent's position, in integers
RowMargin(k) ==
    boundaryCoeff[k][3].n
        - (boundaryCoeff[k][1].n * myAgent.z[1].n
           + boundaryCoeff[k][2].n * myAgent.z[2].n)

Feasible == \A k \in 1..Len(boundaryCoeff) : RowMargin(k) > 0

\* x^T Q x >= 0 for all x: the symmetric part of Q is positive semi-definite
QIsPSD ==
    LET Q == controlParam.Q_2x2
    IN  /\ Q[1][1].n >= 0
        /\ Q[2][2].n >= 0
        /\ 4 * Q[1][1].n * Q[2][2].n >= (Q[1][2].n + Q[2][1].n) * (Q[1][2].n + Q[2][1].n)

\* C1: whenever some boundary row has margin h_k <= 0 at the agent's
\* position, the call ends in the fatal assertion and returns no result.
C1_NonPositiveMarginIsFatal ==
    (pc = "done" /\ \E k \in 1..Len(boundaryCoeff) : RowMargin(k) <= 0)
        => gradRet.outcome = "AssertionError"

\* (z - C)^T Q (z - C) in integers
IntQuadForm ==
    LET Q == controlParam.Q_2x2
        dx == myAgent.z[1].n - myAgent.C[1].n
        dy == myAgent.z[2].n - myAgent.C[2].n
    IN  dx * Q[1][1].n * dx + dx * Q[1][2].n * dy
          + dy * Q[2][1].n * dx + dy * Q[2][2].n * dy

\* sum_k 1/h_k over the first k rows as a fraction <<numerator, denominator>>
RECURSIVE SumRecip(_)
SumRecip(k) ==
    IF k = 0 THEN <<0, 1>>
    ELSE LET s == SumRecip(k - 1)
         IN  <<s[1] * RowMargin(k) + s[2], s[2] * RowMargin(k)>>

ExpectedNeighborGradient(J) ==
    LET s1 == Sum_1_div_Hj(boundaryCoeff, myAgent.z, Len(boundaryCoeff))
        q == VecScale(MatVec(controlParam.Q_2x2, VecSub(myAgent.z, myAgent.C)), s1)
    IN  <<NumNeg(NumAdd(NumMul(J[1][1], q[1]), NumMul(J[2][1], q[2]))),
          NumNeg(NumAdd(NumMul(J[1][2], q[1]), NumMul(J[2][2], q[2])))>>

\* C7: a returning call hands back one neighbor gradient per cross-Jacobian
\* passed in, in the same order, whatever the number of boundary rows, and
\* the j-th is -J_j^T * (Q * (z - C) * S1).
C7_OneGradientPerCrossJacobian ==
    (pc = "done" /\ gradRet.outcome = "returned")
        => /\ Len(gradRet.dVidzj_Arr) = Len(dCi_dzj_list)
           /\ \A j \in 1..Len(dCi_dzj_list) :
                 gradRet.dVidzj_Arr[j] = ExpectedNeighborGradient(dCi_dzj_list[j])

C7_Witness ==
    /\ pc = "done"
    /\ gradRet.outcome = "returned"
    /\ Len(dCi_dzj_list) = 2
    /\ Len(boundaryCoeff) = 1
    /\ Feasible
    /\ gradRet.dVidzj_Arr[1] # gradRet.dVidzj_Arr[2]
    /\ gradRet.dVidzj_Arr[2][1].n # gradRet.dVidzj_Arr[2][2].n

---------------------------------------------------------------------------
(* Claims on Voronoi2D_calCVTPartialDerivative, checked under SpecDiff *)

Called == pc \in {"called", "swapped", "done"}

SamePosition == diffArgs.thisCoord_2d = diffArgs.adjCoord_2d

ZeroLengthEdge == diffArgs.vertex1_2d = diffArgs.vertex2_2d

\* C3: a call with selfPos == neighborPos ends in an error and returns no
\* Jacobians.
C3_SamePositionRaises ==
    (Called /\ SamePosition) => diffRet.outcome # "returned"

\* C4: a call with edgeV1 == edgeV2 and otherwise valid inputs ends in an
\* error and returns no Jacobians.
C4_ZeroLengthEdgeRaises ==
    (Called /\ ZeroLengthEdge /\ ~SamePosition) => diffRet.outcome # "returned"

\* C6: with self and neighbor swapped on the same edge, the cross-Jacobian
\* is the negated self-Jacobian of the original call, and the self-Jacobian
\* the negated cross-Jacobian.
C6_SwappedRolesNegate ==
    (pc \in {"swapped", "done"} /\ ~SamePosition)
        => /\ swapRet.dCi_dzj = MatNeg(diffRet.dCi_dzi_AdjacentJ)
           /\ swapRet.dCi_dzi_AdjacentJ = MatNeg(diffRet.dCi_dzj)

HasNonZero(M) == \E i \in 1..2, j \in 1..2 : IsFinite(M[i][j]) /\ M[i][j].n # 0

C6_Witness ==
    /\ pc = "swapped"
    /\ ~SamePosition
    /\ ~ZeroLengthEdge
    /\ HasNonZero(diffRet.dCi_dzi_AdjacentJ)
    /\ HasNonZero(swapRet.dCi_dzj)
    /\ diffRet.dCi_dzi_AdjacentJ # MatNeg(diffRet.dCi_dzj)

\* C9: on valid inputs the result does not depend on the order of the two
\* edge endpoints.
C9_EndpointOrderIrrelevant ==
    (pc = "done" /\ ~SamePosition /\ ~ZeroLengthEdge)
        => /\ revRet.dCi_dzi_AdjacentJ = diffRet.dCi_dzi_AdjacentJ
           /\ revRet.dCi_dzj = diffRet.dCi_dzj

C9_Witness ==
    /\ pc = "done"
    /\ ~SamePosition
    /\ ~ZeroLengthEdge
    /\ diffArgs.vertex1_2d[1] # diffArgs.vertex2_2d[1]
    /\ diffArgs.vertex1_2d[2] # diffArgs.vertex2_2d[2]
    /\ HasNonZero(revRet.dCi_dzi_AdjacentJ)
    /\ HasNonZero(revRet.dCi_dzj)

---------------------------------------------------------------------------
(* Claims on compute_Control_Input, checked under SpecCtl *)

EpsPositive == controlParam.eps.n > 0

\* w0 - P * |w0| and w0 + P * |w0|
IntervalLo == NumSub(ctlArgs.w0, NumMul(controlParam.P, NumAbs(ctlArgs.w0)))

IntervalHi == NumAdd(ctlArgs.w0, NumMul(controlParam.P, NumAbs(ctlArgs.w0)))

---------------------------------------------------------------------------
(* Claim on compute_Lyapunov, checked under SpecLyap *)

\* dVidzi plus all entries of dVjdzi_Arr, on the contents the caller built
RECURSIVE SumBefore(_)
SumBefore(n) ==
    IF n = 0 THEN beforeCall[dVidziRef]
    ELSE VecAdd(SumBefore(n - 1), beforeCall[dVjdziRefs[n]])

\* C8: every call returns dVidzi plus the sum of the entries of dVjdzi_Arr
\* and leaves the caller's arrays as they were, so repeated calls on the
\* same arguments return the same vector.
C8_InputsUnchangedAndRepeatable ==
    lyapSeen # <<>>
        => /\ heap = beforeCall
           /\ \A k \in 1..Len(lyapSeen) : lyapSeen[k] = SumBefore(Len(dVjdziRefs))

---------------------------------------------------------------------------
(* Claim on the record classes, checked under SpecRec *)

\* C10: every instance owns its fields: an instance whose field was never
\* assigned or accumulated (a new instance in particular) reads the default
\* value, and no two instances hold the same array object.
C10_InstancesOwnTheirFields ==
    /\ \A i \in 1..Len(instances) : \A f \in FieldsOf(instances[i].cls) :
          (instances[i].dict[f] = Unset /\ ClassAttr(f).kind # "int")
              => heap[ClassAttr(f).v] = ClassHeap[ClassAttr(f).v]
    /\ \A i, j \in 1..Len(instances) :
          \A f \in FieldsOf(instances[i].cls) \cap FieldsOf(instances[j].cls) :
              (i # j /\ instances[i].dict[f].kind = "ndarray")
                  => instances[i].dict[f] # instances[j].dict[f]

===========================================================================
